---- MODULE Spec2Model ----
(***************************************************************************)
(* Scanner session orchestration of ARCAI (electron-app): the process      *)
(* registry, the cancellation flag, the popup suppressor, performScan,     *)
(* getScanners and cleanup, as one single-threaded event loop.  Every      *)
(* action is one macrotask of the event loop: a call entering the module   *)
(* or a child-process / timer callback, run up to its next suspension      *)
(* point (promise continuations are microtasks and run inside the step).   *)
(* The modelled code is the scanner module with the cancellation flag,     *)
(* src/electron-app/preload.cjs lines 33-470.                              *)
(***************************************************************************)
EXTENDS Integers, Sequences, FiniteSets, TLC

(* ------------------------------ bounds -------------------------------- *)
MaxProcs == 3          \* child processes alive at the same time
MaxTimers == 2         \* timer objects referenced at the same time
MaxMonitors == 1       \* suppressor instances referenced at the same time
MaxPages == 2          \* page files one tool run writes
MaxPrefix == 2         \* file prefixes present in the temp directory
MaxCleanups == 1       \* cancel-scan calls awaiting their taskkill

ProcIds == 1..MaxProcs
TimerIds == 1..MaxTimers
MonIds == 1..MaxMonitors
PrefixIds == 1..MaxPrefix

VARIABLES
    naps2Exists,       \* fs.existsSync(NAPS2_PATH)
    isScanCancelled,   \* the global cancellation flag
    activeProcesses,   \* registry set of child processes
    activeTimeouts,    \* registry set of timer ids
    procs,             \* the child processes that exist
    timers,            \* the timer objects that are pending
    monRunning,        \* isRunning of each monitorPopup closure
    tempFiles,         \* scan files in os.tmpdir()
    scan,              \* the performScan call (one at a time)
    cancelPending,     \* cleanup() calls of cancel-scan awaiting taskkill
    gs,                \* the getScanners call (one at a time)
    pin,               \* inputs of a sequential getScanners run
    pout,              \* its result
    ui,                \* the state of the ScannerModal component
    ocr                \* the installOcrLanguage call (one at a time)

vars == <<naps2Exists, isScanCancelled, activeProcesses, activeTimeouts,
          procs, timers, monRunning, tempFiles, scan, cancelPending, gs, pin, pout, ui, ocr>>

scanVars == <<naps2Exists, isScanCancelled, activeProcesses, activeTimeouts,
              procs, timers, monRunning, tempFiles, scan, cancelPending>>

(* ------------------------------ helpers ------------------------------- *)
\* killed: cleanup() sent the process SIGTERM; it may have exited on its own
\* before, so its callback can still report any exit code
NoProc == [kind |-> "none", killed |-> FALSE, mon |-> 0]
NoTimer == [st |-> "none", mon |-> 0]

Min(S) == CHOOSE x \in S : \A y \in S : x <= y

FreeProcs == {p \in ProcIds : procs[p].kind = "none"}
FreeTimers == {t \in TimerIds : timers[t].st = "none" /\ t \notin activeTimeouts}
FreeMons == {m \in MonIds : /\ ~monRunning[m]
                            /\ \A p \in ProcIds : procs[p].mon # m
                            /\ \A t \in TimerIds : timers[t].mon # m}
FreePrefixes == {x \in PrefixIds : /\ \A f \in tempFiles : f.prefix # x
                                   /\ scan.prefix # x}

\* error messages are sequences of text fragments
MsgCancelled == <<"Scan cancelled">>
MsgNoImages == <<"No images scanned">>
MsgSpawn == <<"spawn NAPS2.Console.exe ENOENT">>
MsgCancelledByUser == <<"Scan cancelled by user">>
MsgNotFound == <<"Scanning engine (NAPS2) not found.">>
MsgInvalidId == <<"Invalid scanner ID">>

NoResult == [kind |-> "none", images |-> <<>>, error |-> <<>>]
Ok(images) == [kind |-> "ok", images |-> images, error |-> <<>>]
Err(msg) == [kind |-> "err", images |-> <<>>, error |-> msg]

IdleScan == [pc |-> "idle", source |-> "auto", doubleSided |-> FALSE,
             scannerId |-> <<>>, prefix |-> 0, proc |-> 0, mon |-> 0,
             primaryError |-> <<>>, log |-> <<>>, cancelAt |-> {},
             flagAtCall |-> FALSE, result |-> NoResult]

(* --------------------- strings as character sequences ----------------- *)
UpperChars == <<"A","B","C","D","E","F","G","H","I","J","K","L","M",
                "N","O","P","Q","R","S","T","U","V","W","X","Y","Z">>
LowerChars == <<"a","b","c","d","e","f","g","h","i","j","k","l","m",
                "n","o","p","q","r","s","t","u","v","w","x","y","z">>
Digits == {"0","1","2","3","4","5","6","7","8","9"}
Range(f) == {f[i] : i \in DOMAIN f}
WordChars == Range(UpperChars) \cup Range(LowerChars) \cup Digits \cup {"_"}
WhiteSpace == {" ", "\t", "\r", "\n"}

\* String.prototype.toLowerCase, one character
LowerChar(c) ==
    IF \E i \in DOMAIN UpperChars : UpperChars[i] = c
    THEN LowerChars[CHOOSE i \in DOMAIN UpperChars : UpperChars[i] = c]
    ELSE c

toLowerCase(s) == [i \in 1..Len(s) |-> LowerChar(s[i])]

\* String.prototype.startsWith
startsWith(s, pre) ==
    /\ Len(pre) <= Len(s)
    /\ \A i \in 1..Len(pre) : s[i] = pre[i]

\* String.prototype.includes
includes(s, sub) ==
    \E k \in 0..(Len(s) - Len(sub)) :
        \A i \in 1..Len(sub) : s[k + i] = sub[i]

\* String.prototype.trim
trim(s) ==
    LET keep == {i \in 1..Len(s) : s[i] \notin WhiteSpace} IN
    IF keep = {} THEN <<>>
    ELSE LET lo == CHOOSE i \in keep : \A j \in keep : i <= j
             hi == CHOOSE i \in keep : \A j \in keep : i >= j
         IN SubSeq(s, lo, hi)

\* String.prototype.split on any one character of seps
RECURSIVE split(_, _)
split(s, seps) ==
    LET hits == {i \in 1..Len(s) : s[i] \in seps} IN
    IF hits = {} THEN <<s>>
    ELSE LET k == CHOOSE i \in hits : \A j \in hits : i <= j
         IN <<SubSeq(s, 1, k - 1)>> \o split(SubSeq(s, k + 1, Len(s)), seps)

\* Array.prototype.join with a one-character separator
RECURSIVE join(_, _)
join(parts, sep) ==
    IF Len(parts) = 0 THEN <<>>
    ELSE IF Len(parts) = 1 THEN parts[1]
    ELSE parts[1] \o <<sep>> \o join(Tail(parts), sep)

\* the name is the second part only
ParseId_SecondPart(scannerId) ==
    LET parts == split(scannerId, {":"}) IN
    [driver |-> parts[1], deviceName |-> IF Len(parts) >= 2 THEN parts[2] ELSE <<>>]

\* performScan's parsing of the scanner id "driver:name"
ParseId(scannerId) ==
    LET parts == split(scannerId, {":"}) IN
    [driver |-> parts[1], deviceName |-> join(Tail(parts), ":")]

ValidId(scannerId) ==
    /\ ParseId(scannerId).driver # <<>>
    /\ ParseId(scannerId).deviceName # <<>>

\* the scanner ids the caller passes to performScan
IdTwainHP == <<"t","w","a","i","n",":","H","P"," ","1">>
IdNoName == <<"w","i","a">>
IdNoDriver == <<":","H","P">>
\* a device name with a colon, and the id getScanners builds for it
NameColon == <<"H","P",":","1">>
IdWiaColon == <<"w","i","a",":","H","P",":","1">>
ScannerIds == {IdTwainHP, IdNoName, IdNoDriver}

(* ------------------- inputs of the scanner listing -------------------- *)
MaxList == 2           \* lines of one --listdevices output

NameHPL3 == <<"H","P"," ","L","3">>
NameHPScanner == <<"H","P"," ","S","c","a","n","n","e","r">>
NameHpScannerLower == <<"h","p"," ","s","c","a","n","n","e","r","\r">>
NameHP1 == <<" ","H","P"," ","1">>
LineError == <<"E","r","r","o","r",":"," ","x">>
NameHPScannerX == <<"H","P"," ","S","c","a","n","n","e","r"," ","X">>
ToolLines == {NameHPL3, NameHPScanner, NameHpScannerLower, NameHP1, NameHPScannerX, LineError}

DevHPL3 == <<"H","P"," ","L","3"," ","S","e","r","i","e","s","\r","\n">>
DevHP1 == <<"h","p"," ","1","\n","\n">>
DevStdouts == {<<>>, DevHPL3, DevHP1}

LineSeqs == UNION {[1..k -> ToolLines] : k \in 0..MaxList}
ListStdouts == {join(ls, "\n") : ls \in LineSeqs}

\* the outputs used when getScanners runs concurrently with the rest
SomeListStdouts == {<<>>, join(<<NameHPL3, NameHPScanner>>, "\n")}
SomeDevStdouts == {<<>>, DevHPL3}

NoDevices == [isNull |-> FALSE, names |-> <<>>]
IdleGs == [pc |-> "idle", proc |-> 0, devices |-> NoDevices, scanners |-> <<>>,
           done |-> FALSE, refused |-> FALSE]
NoInput == [devErr |-> FALSE, devStdout |-> <<>>, twain |-> <<>>, wia |-> <<>>]
NoOutput == [done |-> FALSE, scanners |-> <<>>, removed |-> {}]

\* ScannerModal's useState initial values (part_008 34-48); hasScanner: a scanner
\* is listed and selected; staleLen: scannedImages.length in the closure of the
\* handleScan call in flight; cancelSent, reopened: what happened during it
IdleUi == [isOpen |-> FALSE, hasScanner |-> FALSE, isScanning |-> FALSE, inflight |-> 0,
           closeTimers |-> 0, images |-> <<>>, index |-> 0, staleLen |-> 0,
           cancelSent |-> FALSE, reopened |-> FALSE]

\* no installOcrLanguage call yet
IdleOcr == [pc |-> "idle", lang |-> "none", reported |-> <<>>, pollActive |-> FALSE,
            started |-> FALSE, result |-> "none", settled |-> 0, outcome |-> "none",
            calls |-> 0, installed |-> {}]

(* ------------------------------- Init --------------------------------- *)
Init ==
    /\ naps2Exists \in BOOLEAN
    /\ isScanCancelled = FALSE
    /\ activeProcesses = {}
    /\ activeTimeouts = {}
    /\ procs = [p \in ProcIds |-> NoProc]
    /\ timers = [t \in TimerIds |-> NoTimer]
    /\ monRunning = [m \in MonIds |-> FALSE]
    /\ tempFiles = {}
    /\ scan = IdleScan
    /\ cancelPending = 0
    /\ gs = IdleGs
    /\ pin = NoInput
    /\ pout = NoOutput
    /\ ui = IdleUi
    /\ ocr = IdleOcr

(* ------------------------------ getScanners --------------------------- *)
\* getConnectedDevices' callback: stdout.split(/[\r\n]+/).map(trim).filter(nonempty);
\* the err argument is not looked at, the result is always an array
ParseDevices(stdout) ==
    LET pieces == split(stdout, {"\r", "\n"})
        trimmed == [i \in 1..Len(pieces) |-> trim(pieces[i])]
    IN  [isNull |-> FALSE, names |-> SelectSeq(trimmed, LAMBDA x : Len(x) > 0)]

WordScanner == <<"s","c","a","n","n","e","r">>
WordError == <<"E","r","r","o","r">>

\* nameLower.split(' ')[0]
FirstToken(s) == split(s, {" "})[1]

\* getScanners.isConnected (preload.cjs 138-166)
isConnected(connectedDevices, naps2Name) ==
    IF connectedDevices.isNull THEN TRUE
    ELSE IF Len(connectedDevices.names) = 0 THEN FALSE
    ELSE LET nameLower == toLowerCase(naps2Name)
             strictMatch ==
                \E i \in 1..Len(connectedDevices.names) :
                    LET connectedLower == toLowerCase(connectedDevices.names[i]) IN
                    includes(nameLower, connectedLower) \/ includes(connectedLower, nameLower)
         IN  IF strictMatch THEN TRUE
             ELSE IF includes(nameLower, WordScanner)
                     /\ ~ \E i \in 1..Len(nameLower) : nameLower[i] \in Digits
             THEN \E i \in 1..Len(connectedDevices.names) :
                     includes(toLowerCase(connectedDevices.names[i]), FirstToken(nameLower))
             ELSE FALSE

\* /\w+-?\w*\d+/.test(s): some digit directly follows a word character,
\* or follows a '-' that follows a word character
HasModel(s) ==
    \E i \in 2..Len(s) :
        /\ s[i] \in Digits
        /\ \/ s[i - 1] \in WordChars
           \/ (i > 2 /\ s[i - 1] = "-" /\ s[i - 2] \in WordChars)

\* the alreadyExists test of the WIA loop (preload.cjs 201-217)
AlreadyExists(scanners, name) ==
    LET baseNameLower == toLowerCase(name)
        manufacturer == FirstToken(baseNameLower)
    IN  \E i \in 1..Len(scanners) :
            LET existingLower == toLowerCase(scanners[i].name) IN
            \/ existingLower = baseNameLower
            \/ /\ startsWith(existingLower, manufacturer)
               /\ HasModel(existingLower)
               /\ baseNameLower = manufacturer \o <<" ">> \o WordScanner

IdPrefix(driver) ==
    IF driver = "twain" THEN <<"t","w","a","i","n",":">> ELSE <<"w","i","a",":">>

\* one pass of stdout.split('\n').forEach(...) (preload.cjs 175-184, 195-226)
RECURSIVE PushLines(_, _, _, _)
PushLines(scanners, lines, connectedDevices, driver) ==
    IF Len(lines) = 0 THEN scanners
    ELSE LET name == trim(lines[1])
             keep == /\ Len(name) > 0
                     /\ ~startsWith(name, WordError)
                     /\ isConnected(connectedDevices, name)
                     /\ (driver = "wia" => ~AlreadyExists(scanners, name))
             next == IF keep
                     THEN Append(scanners, [id |-> IdPrefix(driver) \o name, name |-> name])
                     ELSE scanners
         IN  PushLines(next, Tail(lines), connectedDevices, driver)

\* the body of one try block: `if (!result.error) { ... }`
ListPass(scanners, result, connectedDevices, driver) ==
    IF result.error THEN scanners
    ELSE PushLines(scanners, split(result.stdout, {"\n"}), connectedDevices, driver)

(* ------------------------- strategy of performScan -------------------- *)
Sources == {"auto", "feeder", "flatbed"}

PrimarySource(source, doubleSided) ==
    IF source = "auto" \/ source = "feeder"
    THEN (IF doubleSided THEN "duplex" ELSE "feeder")
    ELSE "glass"

\* every source falls back to the glass
FallbackSource_Always(source) == "glass"

FallbackSource(source) == IF source = "auto" THEN "glass" ELSE "none"

MonitorPrimary(source) == source = "auto"

\* only the fallback's message is reported
CombinedError_FallbackOnly(primaryMsg, fallbackMsg) ==
    <<"Auto-scan failed. Flatbed: ">> \o fallbackMsg

\* `Auto-scan failed. Feeder: ${primaryError.message}. Flatbed: ${fallbackError.message}`
CombinedError(primaryMsg, fallbackMsg) ==
    <<"Auto-scan failed. Feeder: ">> \o primaryMsg \o <<". Flatbed: ">> \o fallbackMsg

\* ipcMain.handle('perform-scan'): what the renderer receives
PerformScanHandler(res) ==
    IF res.kind = "ok"
    THEN [success |-> TRUE, images |-> res.images, error |-> <<>>]
    ELSE [success |-> FALSE, images |-> <<>>, error |-> res.error]

(* ------------------------------ cleanup ------------------------------- *)
\* the signal is not delivered
Kill_Ignored(pr) == pr

\* proc.kill('SIGTERM') (line 455)
Kill(pr) == [pr EXCEPT !.killed = TRUE]

\* a cleanup that clears and kills but does not raise the cancellation flag
CleanupSync_NoFlag ==
    /\ isScanCancelled' = isScanCancelled
    /\ timers' = [t \in TimerIds |->
                    IF t \in activeTimeouts THEN NoTimer ELSE timers[t]]
    /\ activeTimeouts' = {}
    /\ procs' = [p \in ProcIds |->
                    IF p \in activeProcesses
                    THEN Kill(procs[p]) ELSE procs[p]]
    /\ activeProcesses' = {}

\* cleanup() up to its await: flag, clearTimeout, kill, clear both sets
CleanupSync ==
    /\ isScanCancelled' = TRUE
    /\ timers' = [t \in TimerIds |->
                    IF t \in activeTimeouts THEN NoTimer ELSE timers[t]]
    /\ activeTimeouts' = {}
    /\ procs' = [p \in ProcIds |->
                    IF p \in activeProcesses
                    THEN Kill(procs[p]) ELSE procs[p]]
    /\ activeProcesses' = {}

\* ipcMain.handle('cancel-scan'): cleanup() runs up to `await cleanupProcesses()`
CancelCall ==
    /\ cancelPending < MaxCleanups
    /\ CleanupSync
    /\ cancelPending' = cancelPending + 1
    /\ scan' = IF scan.pc = "idle" THEN scan
               ELSE [scan EXCEPT !.cancelAt = @ \cup {scan.pc}]
    /\ UNCHANGED <<naps2Exists, monRunning, tempFiles, gs, pin, pout, ui, ocr>>

\* the taskkill of a cancel-scan cleanup returns: cleanup()'s promise resolves
CancelDone ==
    /\ cancelPending > 0
    /\ cancelPending' = cancelPending - 1
    /\ UNCHANGED <<naps2Exists, isScanCancelled, activeProcesses, activeTimeouts,
                   procs, timers, monRunning, tempFiles, scan, gs, pin, pout, ui, ocr>>

(* ----------------------------- performScan ---------------------------- *)
\* the tool is taken to be present without looking
checkNaps2_Present == TRUE

\* checkNaps2(): fs.existsSync(NAPS2_PATH)
checkNaps2 == naps2Exists

\* the flag is left as the initial cleanup set it
FlagAfterInit_Kept(flag) == flag

\* `isScanCancelled = false` after `await cleanup()` (line 305)
FlagAfterInit(flag) == FALSE

\* the suppressor is left running
StopMonitor_Never(running, m) == running

\* the stop function `() => { isRunning = false }` called in the finally block
\* of executeScanSession (290-292, 390-395); m = 0: no suppressor was started
StopMonitor(running, m) == [x \in MonIds |-> IF x = m THEN FALSE ELSE running[x]]

\* the process object stays alive after its 'close' event
ProcAfterClose_Lingers(pr) == pr

\* 'close' is emitted once the process has exited and its streams are closed
ProcAfterClose(pr) == NoProc

\* every file of the temp directory
OwnFiles_AllFiles(onDisk, prefix) == onDisk

\* fs.readdirSync(tempDir).filter(f => f.startsWith(filePrefix) && f.endsWith('.jpg'))
OwnFiles(onDisk, prefix) == {f \in onDisk : f.prefix = prefix}

\* order of two file names `${filePrefix}_${nnnn}.jpg`
FileLess(f, g) == f.prefix < g.prefix \/ (f.prefix = g.prefix /\ f.page < g.page)

\* Array.prototype.sort of the file names
RECURSIVE SortFiles(_)
SortFiles(S) ==
    IF S = {} THEN <<>>
    ELSE LET first == CHOOSE f \in S : \A g \in S \ {f} : FileLess(f, g)
         IN <<first>> \o SortFiles(S \ {first})

\* what happens to one file in the read loop (380-387)
FileOutcome(outcome, f) == IF f.page \in DOMAIN outcome THEN outcome[f.page] ELSE "ok"

Finish(sc, res) ==
    [sc EXCEPT !.pc = "idle", !.result = res, !.prefix = 0, !.proc = 0, !.mon = 0]

\* spawn: "none" (no spawn tried), "ok", "failed" (the OS refused)
NewAttempt(src, monitor, spawn) ==
    [src |-> src, monitor |-> monitor, spawn |-> spawn, code |-> -1,
     out |-> FALSE, written |-> 0, status |-> "running", error |-> <<>>,
     images |-> <<>>, prefix |-> 0]

SetLast(log, e) == [log EXCEPT ![Len(log)] = e]

\* the catch blocks of performScan (lines 419-437) after attempt number att threw msg
AttemptFailed(sc, att, msg, flag) ==
    LET lg == SetLast(sc.log, [sc.log[Len(sc.log)] EXCEPT !.status = "failed", !.error = msg])
        sc1 == [sc EXCEPT !.log = lg]
    IN  IF flag THEN Finish(sc1, Err(MsgCancelled))
        ELSE IF att = 1 THEN
            IF FallbackSource(sc.source) # "none"
            THEN [sc1 EXCEPT !.pc = "interKill", !.primaryError = msg,
                             !.prefix = 0, !.proc = 0, !.mon = 0]
            ELSE Finish(sc1, Err(msg))
        ELSE Finish(sc1, Err(CombinedError(sc.primaryError, msg)))

\* `if (isScanCancelled) throw new Error('Scan cancelled')` at the top of
\* executeScanSession (line 328)
SessionCancelled(flag) == flag

\* execNaps2 spawns whatever the flag is
ExecCancelled_Never(flag) == FALSE

\* `if (isScanCancelled) { reject(...); return; }` at the top of execNaps2 (58-61)
ExecCancelled(flag) == flag

\* the failed process stays in the registry
OnSpawnError_Kept(active, s) == active

\* the 'error' handler of execNaps2: activeProcesses.delete(childProcess) (96-100)
OnSpawnError(active, s) == active \ {s}

\* the flag is cleared when an attempt's tool run ends
FlagAfterAttempt_Cleared(flag) == FALSE

\* no statement of executeScanSession (327-396) assigns the flag
FlagAfterAttempt(flag) == flag

\* `if (isScanCancelled) return () => { }` at the top of monitorPopup (257)
MonitorRefused(flag) == flag

\* executeScanSession up to `await execNaps2(args, true)` (lines 327-361),
\* with monitorPopup (256-293) and execNaps2's spawn (55-105)
BeginAttempt(sc, att, src, enableMonitor, spawnOk, flag) ==
    IF SessionCancelled(flag)
    THEN /\ scan' = AttemptFailed([sc EXCEPT !.log = Append(@, NewAttempt(src, enableMonitor, "none"))],
                                  att, MsgCancelled, flag)
         /\ UNCHANGED <<procs, activeProcesses, monRunning>>
    ELSE IF ExecCancelled(flag)
    THEN /\ scan' = AttemptFailed([sc EXCEPT !.log = Append(@, NewAttempt(src, enableMonitor, "none"))],
                                  att, MsgCancelledByUser, flag)
         /\ UNCHANGED <<procs, activeProcesses, monRunning>>
    ELSE /\ FreePrefixes # {}
         /\ Cardinality(FreeProcs) >= (IF enableMonitor THEN 2 ELSE 1)
         /\ enableMonitor => FreeMons # {}
         /\ LET pre == Min(FreePrefixes)
                started == enableMonitor /\ ~MonitorRefused(flag)
                m == IF started THEN Min(FreeMons) ELSE 0
                d == IF started THEN Min(FreeProcs) ELSE 0
                s == Min(FreeProcs \ {d})
                withMon == [p \in ProcIds |->
                              IF p = d THEN [kind |-> "dismiss", killed |-> FALSE, mon |-> m]
                              ELSE procs[p]]
                sc1 == [sc EXCEPT !.log = Append(@, [NewAttempt(src, enableMonitor,
                                                     IF spawnOk THEN "ok" ELSE "failed")
                                                        EXCEPT !.prefix = pre]),
                                  !.prefix = pre, !.mon = m]
            IN  IF spawnOk
                THEN /\ procs' = [withMon EXCEPT ![s] = [kind |-> "scan", killed |-> FALSE, mon |-> 0]]
                     /\ activeProcesses' = activeProcesses \cup {s} \cup ({d} \ {0})
                     /\ monRunning' = [x \in MonIds |-> IF x = m THEN TRUE ELSE monRunning[x]]
                     /\ scan' = [sc1 EXCEPT !.pc = IF att = 1 THEN "primary" ELSE "fallback",
                                            !.proc = s]
                ELSE /\ procs' = withMon
                     /\ activeProcesses' = OnSpawnError(activeProcesses \cup {s} \cup ({d} \ {0}), s)
                     /\ monRunning' = StopMonitor([x \in MonIds |-> IF x = m THEN TRUE
                                                                   ELSE monRunning[x]], m)
                     /\ scan' = AttemptFailed(sc1, att, MsgSpawn, flag)

\* performScan lines 295-301: reset the flag, then cleanup() up to its await
PerformScanCall(id, src, ds) ==
    /\ scan.pc = "idle"
    /\ CleanupSync
    /\ scan' = [IdleScan EXCEPT !.pc = "initCleanup", !.scannerId = id,
                                !.source = src, !.doubleSided = ds,
                                !.flagAtCall = isScanCancelled]
    /\ UNCHANGED <<naps2Exists, monRunning, tempFiles, cancelPending, gs, pin, pout, ui, ocr>>

\* performScan lines 301-418: the initial cleanup returned; start the primary attempt
InitCleanupDone(spawnOk) ==
    /\ scan.pc = "initCleanup"
    /\ isScanCancelled' = FlagAfterInit(isScanCancelled)
    /\ IF ~checkNaps2
       THEN /\ scan' = Finish(scan, Err(MsgNotFound))
            /\ UNCHANGED <<procs, activeProcesses, monRunning>>
       ELSE IF FlagAfterInit(isScanCancelled)
       THEN /\ scan' = Finish(scan, Err(MsgCancelled))
            /\ UNCHANGED <<procs, activeProcesses, monRunning>>
       ELSE IF ~ValidId(scan.scannerId)
       THEN /\ scan' = Finish(scan, Err(MsgInvalidId))
            /\ UNCHANGED <<procs, activeProcesses, monRunning>>
       ELSE BeginAttempt(scan, 1, PrimarySource(scan.source, scan.doubleSided),
                         MonitorPrimary(scan.source), spawnOk,
                         FlagAfterInit(isScanCancelled))
    /\ UNCHANGED <<naps2Exists, activeTimeouts, timers, tempFiles, cancelPending, gs, pin, pout, ui, ocr>>

\* performScan lines 425-427: the inter-attempt taskkill returned; start the fallback
InterKillDone(spawnOk) ==
    /\ scan.pc = "interKill"
    /\ BeginAttempt(scan, 2, FallbackSource(scan.source), FALSE, spawnOk, isScanCancelled)
    /\ UNCHANGED <<naps2Exists, isScanCancelled, activeTimeouts, timers, tempFiles,
                   cancelPending, gs, pin, pout, ui, ocr>>

FileOutcomes == {"ok", "readFail", "unlinkFail"}

\* the scan tool's 'close' event (execNaps2 87-94) and the rest of
\* executeScanSession (363-395) and of performScan (418-437)
ScanProcClose(code, n, out, outcome) ==
    /\ scan.pc \in {"primary", "fallback"}
    /\ LET p == scan.proc
           att == IF scan.pc = "primary" THEN 1 ELSE 2
           written == {[prefix |-> scan.prefix, page |-> i] : i \in 1..n}
           onDisk == tempFiles \cup written
           files == OwnFiles(onDisk, scan.prefix)
           images == SelectSeq(SortFiles(files),
                               LAMBDA f : FileOutcome(outcome, f) # "readFail")
           removed == {f \in files : FileOutcome(outcome, f) = "ok"}
           entry == [scan.log[Len(scan.log)] EXCEPT !.code = code, !.out = out, !.written = n]
           sc1 == [scan EXCEPT !.log = SetLast(@, entry)]
       IN  /\ procs' = [procs EXCEPT ![p] = ProcAfterClose(procs[p])]
           /\ activeProcesses' = activeProcesses \ {p}
           /\ monRunning' = StopMonitor(monRunning, scan.mon)
           /\ IF isScanCancelled
              THEN /\ tempFiles' = onDisk
                   /\ scan' = AttemptFailed(sc1, att, MsgCancelled, isScanCancelled)
              ELSE IF files = {}
              THEN /\ tempFiles' = onDisk
                   /\ scan' = AttemptFailed(sc1, att, MsgNoImages, isScanCancelled)
              ELSE /\ tempFiles' = onDisk \ removed
                   /\ scan' = Finish([sc1 EXCEPT !.log = SetLast(@,
                                        [entry EXCEPT !.status = "ok", !.images = images])],
                                     Ok(images))
    /\ isScanCancelled' = FlagAfterAttempt(isScanCancelled)
    /\ UNCHANGED <<naps2Exists, activeTimeouts, timers, cancelPending,
                   gs, pin, pout, ui, ocr>>

(* --------------------------- popup suppressor ------------------------- *)
\* a fixed-period interval: the timer stays pending after it fired
FiredTimer_Interval(tm) == tm

\* setTimeout(doCheck, 100) is one-shot: a timer that fired is not pending any more
FiredTimer(tm) == NoTimer

\* the exec callback of a dismissal process (monitorPopup 268-280)
DismissDone(p) ==
    /\ procs[p].kind = "dismiss"
    /\ procs' = [procs EXCEPT ![p] = NoProc]
    /\ activeProcesses' = activeProcesses \ {p}
    /\ IF ~isScanCancelled /\ monRunning[procs[p].mon]
       THEN /\ FreeTimers # {}
            /\ LET t == Min(FreeTimers) IN
               /\ timers' = [timers EXCEPT ![t] = [st |-> "pending", mon |-> procs[p].mon]]
               /\ activeTimeouts' = activeTimeouts \cup {t}
       ELSE UNCHANGED <<timers, activeTimeouts>>
    /\ UNCHANGED <<naps2Exists, isScanCancelled, monRunning, tempFiles, scan, cancelPending,
                   gs, pin, pout, ui, ocr>>

\* a suppressor timer fires: doCheck (monitorPopup 262-284)
TimerFire(t) ==
    /\ timers[t].st = "pending"
    /\ timers' = [timers EXCEPT ![t] = FiredTimer(timers[t])]
    /\ IF isScanCancelled \/ ~monRunning[timers[t].mon]
       THEN UNCHANGED <<procs, activeProcesses>>
       ELSE /\ FreeProcs # {}
            /\ LET d == Min(FreeProcs) IN
               /\ procs' = [procs EXCEPT ![d] = [kind |-> "dismiss", killed |-> FALSE,
                                                  mon |-> timers[t].mon]]
               /\ activeProcesses' = activeProcesses \cup {d}
    /\ UNCHANGED <<naps2Exists, isScanCancelled, activeTimeouts, monRunning, tempFiles,
                   scan, cancelPending, gs, pin, pout, ui, ocr>>

(* ----------------------- getScanners, concurrent ---------------------- *)
GsReturn(g) == [g EXCEPT !.pc = "idle", !.proc = 0, !.done = TRUE]

\* `await execNaps2(['--listdevices', '--driver', driver])` inside its try block;
\* a rejection (flag set, spawn error) is caught and the next pass is tried,
\* which is rejected for the same reason, so getScanners returns
StartList(g, driver, spawnOk, procs1, active1) ==
    IF ExecCancelled(isScanCancelled) \/ ~spawnOk
    THEN /\ gs' = GsReturn([g EXCEPT !.refused = ExecCancelled(isScanCancelled)])
         /\ procs' = procs1
         /\ activeProcesses' = active1
    ELSE LET free == {p \in ProcIds : procs1[p].kind = "none"} IN
         /\ free # {}
         /\ procs' = [procs1 EXCEPT ![Min(free)] = [kind |-> "list", killed |-> FALSE, mon |-> 0]]
         /\ activeProcesses' = active1 \cup {Min(free)}
         /\ gs' = [g EXCEPT !.pc = driver, !.proc = Min(free)]

\* getScanners lines 128-135 and getConnectedDevices up to its exec
GetScannersCall ==
    /\ gs.pc = "idle"
    /\ IF ~checkNaps2
       THEN /\ gs' = GsReturn([IdleGs EXCEPT !.scanners = <<>>])
            /\ UNCHANGED <<procs, activeProcesses>>
       ELSE /\ FreeProcs # {}
            /\ procs' = [procs EXCEPT ![Min(FreeProcs)] =
                            [kind |-> "devq", killed |-> FALSE, mon |-> 0]]
            /\ activeProcesses' = activeProcesses \cup {Min(FreeProcs)}
            /\ gs' = [IdleGs EXCEPT !.pc = "devq", !.proc = Min(FreeProcs)]
    /\ UNCHANGED <<naps2Exists, isScanCancelled, activeTimeouts, timers, monRunning,
                   tempFiles, scan, cancelPending, pin, pout, ui, ocr>>

\* the exec callback of the device query (113-121), then getScanners up to
\* the TWAIN listing's await (135-173)
DevQueryDone(err, stdout, spawnOk) ==
    /\ gs.pc = "devq"
    /\ StartList([gs EXCEPT !.devices = ParseDevices(stdout)], "twain", spawnOk,
                 [procs EXCEPT ![gs.proc] = NoProc], activeProcesses \ {gs.proc})
    /\ UNCHANGED <<naps2Exists, isScanCancelled, activeTimeouts, timers, monRunning,
                   tempFiles, scan, cancelPending, pin, pout, ui, ocr>>

\* the 'close' event of a --listdevices run (87-94), the loop over its lines,
\* and getScanners up to the next await or its return
ListClose(code, stdout, spawnOk) ==
    /\ gs.pc \in {"twain", "wia"}
    /\ LET g1 == [gs EXCEPT !.scanners = ListPass(@, [error |-> code # 0, stdout |-> stdout],
                                                  gs.devices, gs.pc)]
           procs1 == [procs EXCEPT ![gs.proc] = NoProc]
           active1 == activeProcesses \ {gs.proc}
       IN  IF gs.pc = "twain"
           THEN StartList(g1, "wia", spawnOk, procs1, active1)
           ELSE /\ gs' = GsReturn(g1)
                /\ procs' = procs1
                /\ activeProcesses' = active1
    /\ UNCHANGED <<naps2Exists, isScanCancelled, activeTimeouts, timers, monRunning,
                   tempFiles, scan, cancelPending, pin, pout, ui, ocr>>

(* ----------------------- getScanners, sequential ---------------------- *)
\* the names the tool reported: non-empty trimmed lines without the error marker
Candidates(stdout) ==
    LET lines == split(stdout, {"\n"}) IN
    {trim(lines[i]) : i \in {j \in 1..Len(lines) :
                               /\ Len(trim(lines[j])) > 0
                               /\ ~startsWith(trim(lines[j]), WordError)}}

\* getScanners with no cancellation and both listings exiting with code 0
ListScanners(in) ==
    LET devices == ParseDevices(in.devStdout)
        afterTwain == ListPass(<<>>, [error |-> FALSE, stdout |-> in.twain], devices, "twain")
    IN  ListPass(afterTwain, [error |-> FALSE, stdout |-> in.wia], devices, "wia")

GetScannersApply ==
    /\ ~pout.done
    /\ pout' = [done |-> TRUE, scanners |-> ListScanners(pin),
                removed |-> {n \in Candidates(pin.twain) \cup Candidates(pin.wia) :
                               ~isConnected(ParseDevices(pin.devStdout), n)}]
    /\ UNCHANGED <<scanVars, gs, pin, ui, ocr>>

ListInputs == [devErr : BOOLEAN, devStdout : DevStdouts,
               twain : ListStdouts, wia : ListStdouts]

ListInit ==
    /\ naps2Exists = TRUE
    /\ isScanCancelled = FALSE
    /\ activeProcesses = {}
    /\ activeTimeouts = {}
    /\ procs = [p \in ProcIds |-> NoProc]
    /\ timers = [t \in TimerIds |-> NoTimer]
    /\ monRunning = [m \in MonIds |-> FALSE]
    /\ tempFiles = {}
    /\ scan = IdleScan
    /\ cancelPending = 0
    /\ gs = IdleGs
    /\ pin \in ListInputs
    /\ pout = NoOutput
    /\ ui = IdleUi
    /\ ocr = IdleOcr

ListNext == GetScannersApply

ListSpec == ListInit /\ [][ListNext]_vars

(* ------------------------------- Next --------------------------------- *)
Next ==
    \/ \E id \in ScannerIds, src \in Sources, ds \in BOOLEAN : PerformScanCall(id, src, ds)
    \/ \E ok \in BOOLEAN : InitCleanupDone(ok)
    \/ \E ok \in BOOLEAN : InterKillDone(ok)
    \/ \E code \in {0, 1}, n \in 0..MaxPages, out \in BOOLEAN :
         \E outcome \in [1..n -> FileOutcomes] : ScanProcClose(code, n, out, outcome)
    \/ CancelCall
    \/ CancelDone
    \/ \E p \in ProcIds : DismissDone(p)
    \/ \E t \in TimerIds : TimerFire(t)

\* performScan, cancel-scan and the popup suppressor
Spec == Init /\ [][Next]_vars

\* getScanners running concurrently with cancel-scan and with performScan calls
\* that start no suppressor
GsNext ==
    \/ GetScannersCall
    \/ \E err \in BOOLEAN, out \in SomeDevStdouts, ok \in BOOLEAN : DevQueryDone(err, out, ok)
    \/ \E code \in {0, 1}, out \in SomeListStdouts, ok \in BOOLEAN : ListClose(code, out, ok)
    \/ CancelCall
    \/ CancelDone
    \/ \E id \in ScannerIds, src \in {"feeder", "flatbed"} : PerformScanCall(id, src, FALSE)
    \/ \E ok \in BOOLEAN : InitCleanupDone(ok)
    \/ \E code \in {0, 1}, n \in 0..MaxPages, out \in BOOLEAN :
         \E outcome \in [1..n -> FileOutcomes] : ScanProcClose(code, n, out, outcome)

GsSpec == Init /\ [][GsNext]_vars

\* the calls into the module when the tool executable is absent
MissingInit == Init /\ naps2Exists = FALSE

MissingNext ==
    \/ GetScannersCall
    \/ \E id \in ScannerIds, src \in Sources, ds \in BOOLEAN : PerformScanCall(id, src, ds)
    \/ \E ok \in BOOLEAN : InitCleanupDone(ok)
    \/ CancelCall
    \/ CancelDone

MissingSpec == MissingInit /\ [][MissingNext]_vars

(* ------------------- every operation, few inputs ---------------------- *)
OnePageOk(n) == [i \in 1..n |-> "ok"]

\* performScan, cancel-scan, the suppressor and getScanners together, with one
\* scanner id, one-page tool runs and readable files
FlagNext ==
    \/ \E src \in {"auto", "flatbed"} : PerformScanCall(IdTwainHP, src, FALSE)
    \/ InitCleanupDone(TRUE)
    \/ InterKillDone(TRUE)
    \/ \E n \in 0..1 : ScanProcClose(0, n, FALSE, OnePageOk(n))
    \/ CancelCall
    \/ CancelDone
    \/ \E p \in ProcIds : DismissDone(p)
    \/ \E t \in TimerIds : TimerFire(t)
    \/ GetScannersCall
    \/ DevQueryDone(FALSE, DevHPL3, TRUE)
    \/ \E out \in SomeListStdouts : ListClose(0, out, TRUE)

FlagSpec == Init /\ [][FlagNext]_vars

\* performScan and cancel-scan with every kind of scanner id, flatbed source
\* and readable files
IdNext ==
    \/ \E id \in ScannerIds \cup {IdWiaColon} : PerformScanCall(id, "flatbed", FALSE)
    \/ InitCleanupDone(TRUE)
    \/ \E code \in {0, 1}, n \in 0..MaxPages : ScanProcClose(code, n, FALSE, OnePageOk(n))
    \/ CancelCall
    \/ CancelDone

IdSpec == Init /\ [][IdNext]_vars

(* --------------------------- scheduling ------------------------------- *)
\* the exit of a scan-tool process that cleanup() has killed
KilledExit ==
    /\ scan.pc \in {"primary", "fallback"}
    /\ procs[scan.proc].killed
    /\ \E code \in {0, 1}, n \in 0..1 : ScanProcClose(code, n, FALSE, OnePageOk(n))

LiveNext ==
    \/ \E src \in Sources : PerformScanCall(IdTwainHP, src, FALSE)
    \/ \E ok \in BOOLEAN : InitCleanupDone(ok)
    \/ \E ok \in BOOLEAN : InterKillDone(ok)
    \/ \E code \in {0, 1}, n \in 0..1 : ScanProcClose(code, n, FALSE, OnePageOk(n))
    \/ CancelCall
    \/ CancelDone
    \/ \E p \in ProcIds : DismissDone(p)
    \/ \E t \in TimerIds : TimerFire(t)

\* the event loop runs every callback that is due: the taskkill and the
\* dismissal commands return (exec, the latter with a 1 s timeout), timers
\* fire, a killed process reports its exit.  Calls from the user and the exit
\* of a scan tool that nobody killed are not forced.
LiveSpec ==
    /\ Init
    /\ [][LiveNext]_vars
    /\ WF_vars(\E ok \in BOOLEAN : InitCleanupDone(ok))
    /\ WF_vars(\E ok \in BOOLEAN : InterKillDone(ok))
    /\ WF_vars(CancelDone)
    /\ WF_vars(\E p \in ProcIds : DismissDone(p))
    /\ WF_vars(\E t \in TimerIds : TimerFire(t))
    /\ WF_vars(KilledExit)

(* ----------------------------- ScannerModal --------------------------- *)
MaxImages == 3         \* images held by the modal
MaxCloseTimers == 1    \* pending 300 ms timers of handleClose
MaxInflight == 2       \* performScan requests awaiting their reply
MaxIndex == 4          \* cap of currentImageIndex, which handleNextImage can grow

backendVars == <<scanVars, gs, pin, pout>>

\* the scan button is disabled only when no scanner is listed
ScanDisabled_NoScanners(u) == ~u.hasScanner

\* `disabled={isScanning || scanners.length === 0}` (part_008 428) and the
\* `!selectedScanner` return of handleScan (200)
ScanDisabled(u) == u.isScanning \/ ~u.hasScanner

Image == "data:image/jpeg"

\* scannedImages.filter((_, i) => i !== currentImageIndex), 0-based index
FilterOut(images, index) ==
    LET keep == {i \in 1..Len(images) : i - 1 # index}
        pos(k) == CHOOSE i \in keep : Cardinality({j \in keep : j < i}) = k - 1
    IN  [k \in 1..Cardinality(keep) |-> images[pos(k)]]

\* the parent sets isOpen (Entry page); the component stays mounted while
\* closed; the effect on isOpen (166-182) reloads the scanner list, which may
\* come back empty
UiOpen(listed) ==
    /\ ~ui.isOpen
    /\ ui' = [ui EXCEPT !.isOpen = TRUE, !.hasScanner = listed,
                        !.reopened = @ \/ ui.isScanning]
    /\ UNCHANGED <<backendVars, ocr>>

\* handleClose (184-197) up to its setTimeout
HandleClose ==
    /\ ui.isOpen
    /\ ui.closeTimers < MaxCloseTimers
    /\ ui' = [ui EXCEPT !.closeTimers = @ + 1, !.cancelSent = @ \/ ui.isScanning]
    /\ UNCHANGED <<backendVars, ocr>>

\* the 300 ms timer of handleClose (190-196)
CloseTimer ==
    /\ ui.closeTimers > 0
    /\ ui' = [ui EXCEPT !.closeTimers = @ - 1, !.isOpen = FALSE,
                        !.images = <<>>, !.index = 0]
    /\ UNCHANGED <<backendVars, ocr>>

\* handleScan (199-209) up to `await window.electronAPI.performScan(...)`
HandleScan ==
    /\ ui.isOpen
    /\ ~ScanDisabled(ui)
    /\ ui.inflight < MaxInflight
    /\ ui' = [ui EXCEPT !.isScanning = TRUE, !.inflight = @ + 1,
                        !.staleLen = Len(ui.images),
                        !.cancelSent = FALSE, !.reopened = FALSE]
    /\ UNCHANGED <<backendVars, ocr>>

\* the reply of performScan arrives: the rest of handleScan (211-225);
\* k = 0: failure, or success without images
ScanSettle(k) ==
    /\ ui.inflight > 0
    /\ Len(ui.images) + k <= MaxImages
    /\ ui' = [ui EXCEPT !.isScanning = FALSE, !.inflight = @ - 1,
                        !.images = IF k > 0 THEN @ \o [i \in 1..k |-> Image] ELSE @,
                        !.index = IF k > 0 THEN ui.staleLen ELSE @]
    /\ UNCHANGED <<backendVars, ocr>>

\* handleClearImages (262-265)
ClearImages ==
    /\ ui.isOpen
    /\ Len(ui.images) > 0
    /\ ui' = [ui EXCEPT !.images = <<>>, !.index = 0]
    /\ UNCHANGED <<backendVars, ocr>>

\* handlePrevImage (267-269)
PrevImage ==
    /\ ui.isOpen
    /\ Len(ui.images) > 1
    /\ ui' = [ui EXCEPT !.index = IF @ = 0 THEN Len(ui.images) - 1 ELSE @ - 1]
    /\ UNCHANGED <<backendVars, ocr>>

\* handleNextImage (271-273)
NextImage ==
    /\ ui.isOpen
    /\ Len(ui.images) > 1
    /\ ui.index < MaxIndex
    /\ ui' = [ui EXCEPT !.index = IF @ = Len(ui.images) - 1 THEN 0 ELSE @ + 1]
    /\ UNCHANGED <<backendVars, ocr>>

\* handleDeleteCurrentImage (275-281)
DeleteCurrentImage ==
    /\ ui.isOpen
    /\ Len(ui.images) > 0
    /\ LET newImages == FilterOut(ui.images, ui.index) IN
       ui' = [ui EXCEPT !.images = newImages,
                        !.index = IF ui.index >= Len(newImages) /\ Len(newImages) > 0
                                  THEN Len(newImages) - 1 ELSE @]
    /\ UNCHANGED <<backendVars, ocr>>

UiInit ==
    /\ naps2Exists = TRUE
    /\ isScanCancelled = FALSE
    /\ activeProcesses = {}
    /\ activeTimeouts = {}
    /\ procs = [p \in ProcIds |-> NoProc]
    /\ timers = [t \in TimerIds |-> NoTimer]
    /\ monRunning = [m \in MonIds |-> FALSE]
    /\ tempFiles = {}
    /\ scan = IdleScan
    /\ cancelPending = 0
    /\ gs = IdleGs
    /\ pin = NoInput
    /\ pout = NoOutput
    /\ ui = IdleUi
    /\ ocr = IdleOcr

UiNext ==
    \/ \E listed \in BOOLEAN : UiOpen(listed)
    \/ HandleClose
    \/ CloseTimer
    \/ HandleScan
    \/ \E k \in 0..MaxPages : ScanSettle(k)
    \/ ClearImages
    \/ PrevImage
    \/ NextImage
    \/ DeleteCurrentImage

UiSpec == UiInit /\ [][UiNext]_vars

(* --------------------------- installOcrLanguage ----------------------- *)
\* OCR_LANGUAGES has the keys 'ar' and 'en'
OcrLanguages == {"ar", "en"}
MaxInstalls == 3       \* calls of installOcrLanguage
LangCodes == {"ar", "en", "fr"}
ExecResults == {"success", "failed", "none"}

OcrSettle(o, out) == [o EXCEPT !.pc = "done", !.settled = @ + 1, !.outcome = out,
                               !.pollActive = FALSE, !.started = FALSE,
                               !.installed = IF out = "resolved" THEN @ \cup {o.lang} ELSE @]

OcrReport(o, percent) == [o EXCEPT !.reported = Append(@, percent)]

\* installOcrLanguage(langCode, onProgress) up to the exec call (97-166):
\* an unknown code throws, a throwing writeFileSync rejects in the executor
InstallCall(langCode, writeOk) ==
    /\ ocr.pc \in {"idle", "done"}
    /\ ocr.calls < MaxInstalls
    /\ LET o == [IdleOcr EXCEPT !.lang = langCode, !.calls = ocr.calls + 1,
                                !.installed = ocr.installed] IN
       ocr' = IF langCode \notin OcrLanguages \/ ~writeOk
              THEN OcrSettle(o, "rejected")
              ELSE [OcrReport(o, 10) EXCEPT !.pc = "running", !.pollActive = TRUE]
    /\ UNCHANGED <<backendVars, ui>>

\* the elevated script starts and writes the 'started' marker
UacAccepted ==
    /\ ocr.pc = "running"
    /\ ~ocr.started
    /\ 30 \notin {ocr.reported[i] : i \in 1..Len(ocr.reported)}
    /\ ocr' = [ocr EXCEPT !.started = TRUE]
    /\ UNCHANGED <<backendVars, ui>>

\* a tick of pollInterval that finds the marker (154-163)
PollTick ==
    /\ ocr.pc = "running"
    /\ ocr.pollActive
    /\ ocr.started
    /\ ocr' = [OcrReport(ocr, 30) EXCEPT !.pollActive = FALSE, !.started = FALSE]
    /\ UNCHANGED <<backendVars, ui>>

\* the exec callback up to `await new Promise(r => setTimeout(r, 500))`
\* (169-184); res is what the result file will hold
ExecDone(res) ==
    /\ ocr.pc = "running"
    /\ ocr' = [OcrReport(ocr, 90) EXCEPT !.pc = "verify", !.pollActive = FALSE,
                                         !.started = FALSE, !.result = res]
    /\ UNCHANGED <<backendVars, ui>>

\* after the 500 ms wait: the result file decides, or checkOcrLanguages is
\* called, whose writeFileSync (ocr.cjs 48) may throw outside any try (186-204)
VerifyTimer(writeOk) ==
    /\ ocr.pc = "verify"
    /\ ocr' = CASE ocr.result = "success" -> OcrSettle(OcrReport(ocr, 100), "resolved")
                [] ocr.result = "failed"  -> OcrSettle(ocr, "rejected")
                [] OTHER -> [ocr EXCEPT !.pc = IF writeOk THEN "check" ELSE "stuck"]
    /\ UNCHANGED <<backendVars, ui>>

\* checkOcrLanguages resolves (205-213)
CheckDone(installed) ==
    /\ ocr.pc = "check"
    /\ ocr' = IF installed THEN OcrSettle(OcrReport(ocr, 100), "resolved")
                           ELSE OcrSettle(ocr, "rejected")
    /\ UNCHANGED <<backendVars, ui>>

OcrNext ==
    \/ \E l \in LangCodes, w \in BOOLEAN : InstallCall(l, w)
    \/ UacAccepted
    \/ PollTick
    \/ \E r \in ExecResults : ExecDone(r)
    \/ \E w \in BOOLEAN : VerifyTimer(w)
    \/ \E i \in BOOLEAN : CheckDone(i)

\* timers fire and exec calls back (the elevated run has a 5 min timeout, the
\* check a 30 s one); calls from the user and the UAC prompt are not forced
OcrSpec ==
    /\ UiInit
    /\ [][OcrNext]_vars
    /\ WF_vars(PollTick)
    /\ WF_vars(\E r \in ExecResults : ExecDone(r))
    /\ WF_vars(\E w \in BOOLEAN : VerifyTimer(w))
    /\ WF_vars(\E i \in BOOLEAN : CheckDone(i))

TypeOK ==
    /\ isScanCancelled \in BOOLEAN
    /\ activeProcesses \subseteq ProcIds
    /\ activeTimeouts \subseteq TimerIds
    /\ cancelPending \in 0..MaxCleanups
    /\ scan.pc \in {"idle", "initCleanup", "primary", "interKill", "fallback"}

(* ============================ properties ============================== *)
Settled == scan.pc = "idle" /\ scan.result.kind # "none"
Runnable == naps2Exists /\ ValidId(scan.scannerId)
LastAttempt == scan.log[Len(scan.log)]

\* msg occurs inside whole, fragment by fragment
Contains(whole, msg) ==
    \E k \in 0..(Len(whole) - Len(msg)) : \A i \in 1..Len(msg) : whole[k + i] = msg[i]

DismissalsOf(m) == {p \in ProcIds : procs[p].kind = "dismiss" /\ procs[p].mon = m}
PendingTimersOf(m) == {t \in TimerIds : timers[t].st = "pending" /\ timers[t].mon = m}

\* C1: whenever a cleanup() call completes (the cleanup of a cancel-scan, or the
\* initial cleanup of performScan), both registry sets are empty and the
\* cancellation flag is true; a further cleanup() from such a state changes
\* none of the three.
C1_CleanupCompleteness ==
    [][ /\ (cancelPending' < cancelPending) =>
             (activeProcesses' = {} /\ activeTimeouts' = {} /\ isScanCancelled')
        /\ (scan.pc = "initCleanup" /\ scan'.pc # "initCleanup") =>
             (activeProcesses = {} /\ activeTimeouts = {} /\ isScanCancelled)
        /\ (cancelPending' > cancelPending
              /\ activeProcesses = {} /\ activeTimeouts = {} /\ isScanCancelled) =>
             (activeProcesses' = {} /\ activeTimeouts' = {} /\ isScanCancelled')
      ]_vars

\* C2: a performScan during which cancel-scan was invoked (at any moment of the
\* call, its initial cleanup included) ends with the 'Scan cancelled' failure
\* and returns no images (tool present, scanner id valid).
C2_CancelAlwaysObserved ==
    (Settled /\ Runnable /\ scan.cancelAt # {}) =>
        (scan.result.images = <<>> /\ scan.result = Err(MsgCancelled))

\* C3: if the cancellation flag was set during the primary attempt or during
\* the inter-attempt kill, no spawn of the fallback scan-tool process is tried
\* and performScan fails with 'Scan cancelled'.
C3_NoFallbackAfterCancel ==
    (scan.cancelAt \cap {"primary", "interKill"} # {}) =>
        /\ scan.pc # "fallback"
        /\ \A i \in 2..Len(scan.log) : scan.log[i].spawn = "none"
        /\ Settled => scan.result = Err(MsgCancelled)

\* a cancel arrived during the inter-attempt kill, the fallback attempt was
\* entered and refused, and the call has settled
C3_Witness ==
    /\ Settled
    /\ "interKill" \in scan.cancelAt
    /\ Len(scan.log) = 2
    /\ scan.log[2].spawn = "none"
    /\ scan.result = Err(MsgCancelled)

C7_FallbackImagesReturned ==
    (/\ Settled
     /\ scan.source = "auto"
     /\ scan.cancelAt = {}
     /\ Len(scan.log) = 2
     /\ scan.log[1].spawn = "ok" /\ scan.log[1].written = 0
     /\ scan.log[2].spawn = "ok" /\ scan.log[2].written >= 1)
    => /\ scan.result.kind = "ok"
       /\ Len(scan.result.images) = scan.log[2].written
       /\ \A i \in 1..Len(scan.result.images) : scan.result.images[i].page = i

\* C8: once the tool exists and the id is valid, performScan fails only if
\* every attempt it made failed; if both attempts failed and no cancel-scan
\* arrived after the initial cleanup, the failure contains both attempts'
\* messages; with no fallback the primary's failure is surfaced unchanged.
C8_FailureAggregation ==
    (Settled /\ Runnable /\ scan.result.kind = "err") =>
        /\ Len(scan.log) >= 1
        /\ \A i \in 1..Len(scan.log) : scan.log[i].status = "failed"
        /\ (Len(scan.log) = 2 /\ scan.cancelAt \subseteq {"initCleanup"}) =>
              /\ Contains(scan.result.error, scan.log[1].error)
              /\ Contains(scan.result.error, scan.log[2].error)
        /\ FallbackSource(scan.source) = "none" => scan.result.error = scan.log[1].error

\* both attempts failed without cancellation and the call has settled
C8_Witness ==
    /\ Settled
    /\ scan.cancelAt = {}
    /\ Len(scan.log) = 2
    /\ scan.log[1].error = MsgNoImages
    /\ scan.log[2].error = MsgSpawn
    /\ scan.result.kind = "err"

\* C9: the caller of the 'perform-scan' handler receives either success with
\* a non-empty list holding every page file the successful attempt's tool run
\* wrote, or a failure with an error string and no images.
C9_AllPagesOrError ==
    Settled =>
        LET reply == PerformScanHandler(scan.result) IN
        IF reply.success
        THEN /\ Len(reply.images) >= 1
             /\ Len(reply.images) = LastAttempt.written
        ELSE reply.images = <<>> /\ reply.error # <<>>

\* C10: an attempt whose tool run wrote no file fails, and an attempt whose
\* tool exited with a non-zero code accompanied by output fails.
C10_AttemptFailsOnToolError ==
    \A i \in 1..Len(scan.log) :
        (scan.log[i].spawn = "ok" /\ scan.log[i].status # "running") =>
            /\ scan.log[i].written = 0 => scan.log[i].status = "failed"
            /\ (scan.log[i].code # 0 /\ scan.log[i].out) => scan.log[i].status = "failed"

\* C5: if the device query failed, the connectivity filter removed no name
\* the scan tool reported.
C5_PermissiveOnProbeFailure ==
    (pout.done /\ pin.devErr) => pout.removed = {}

NamesOf(scanners) == [i \in 1..Len(scanners) |-> toLowerCase(scanners[i].name)]

\* C6: when every reported name passes the connectivity filter, the returned
\* list has no two entries equal after lower-casing, and no generic
\* "<manufacturer> scanner" entry next to a model-numbered entry of the same
\* manufacturer.
C6_DedupPrefersModel ==
    (pout.done /\ pout.removed = {}) =>
        LET names == NamesOf(pout.scanners) IN
        /\ \A i, j \in 1..Len(names) : i # j => names[i] # names[j]
        /\ \A i, j \in 1..Len(names) :
              ~ (/\ HasModel(names[i])
                 /\ names[j] = FirstToken(names[i]) \o <<" ">> \o WordScanner)

ScanProcs == {p \in ProcIds : procs[p].kind = "scan"}

\* C11: once a scan attempt has ended (success, failure or cancellation) no
\* file carrying that attempt's prefix is left in the temp directory.
C11_NoTempFilesLeft ==
    \A i \in 1..Len(scan.log) :
        (scan.log[i].status # "running" /\ scan.log[i].prefix # 0) =>
            \A f \in tempFiles : f.prefix # scan.log[i].prefix

\* C12: an attempt deletes only files carrying its own prefix and returns only
\* files carrying its own prefix, also while files of an earlier attempt are
\* still in the temp directory.
C12_PrefixIsolation ==
    [][ /\ \A f \in tempFiles \ tempFiles' : f.prefix = scan.prefix
        /\ \A i \in 1..Len(scan'.log) :
              \A k \in 1..Len(scan'.log[i].images) :
                  scan'.log[i].images[k].prefix = scan'.log[i].prefix
        /\ (scan'.result.kind = "ok" /\ scan.result.kind # "ok") =>
              \A k \in 1..Len(scan'.result.images) :
                  scan'.result.images[k].prefix = scan.prefix
      ]_vars

\* an attempt returned images while a file of another attempt was on disk
C12_Witness ==
    /\ Settled
    /\ scan.result.kind = "ok"
    /\ Len(scan.result.images) >= 1
    /\ \E f \in tempFiles : f.prefix # LastAttempt.prefix

\* C13: with the tool executable missing, getScanners returns the empty list
\* and performScan fails, and no process is spawned and no suppressor started.
C13_ToolMissing ==
    ~naps2Exists =>
        /\ \A p \in ProcIds : procs[p].kind = "none"
        /\ activeProcesses = {}
        /\ \A m \in MonIds : ~monRunning[m]
        /\ gs.pc = "idle"
        /\ gs.done => gs.scanners = <<>>
        /\ scan.pc \in {"idle", "initCleanup"}
        /\ scan.log = <<>>
        /\ Settled => (scan.result.kind = "err" /\ scan.result.error = MsgNotFound)

\* both calls have returned with the tool missing
C13_Witness ==
    /\ ~naps2Exists
    /\ gs.done
    /\ Settled
    /\ scan.source = "auto"

\* C14: the strategy table.  auto: primary duplex/feeder per doubleSided with a
\* suppressor, fallback glass without one; feeder: primary duplex/feeder, no
\* fallback; flatbed: primary glass, no fallback; no suppressor runs during a
\* fallback attempt.
C14_StrategyTable ==
    /\ Len(scan.log) <= 2
    /\ Len(scan.log) >= 1 =>
          /\ scan.source = "auto" =>
                /\ scan.log[1].src = (IF scan.doubleSided THEN "duplex" ELSE "feeder")
                /\ scan.log[1].monitor
          /\ scan.source = "feeder" =>
                /\ scan.log[1].src = (IF scan.doubleSided THEN "duplex" ELSE "feeder")
                /\ ~scan.log[1].monitor
          /\ scan.source = "flatbed" =>
                /\ scan.log[1].src = "glass"
                /\ ~scan.log[1].monitor
    /\ (Len(scan.log) = 2 \/ scan.pc \in {"interKill", "fallback"}) => scan.source = "auto"
    /\ Len(scan.log) = 2 => (scan.log[2].src = "glass" /\ ~scan.log[2].monitor)
    /\ scan.pc = "fallback" => (scan.mon = 0 /\ \A m \in MonIds : ~monRunning[m])
    /\ scan.pc = "primary" /\ scan.source # "auto" => scan.mon = 0

\* a double-sided auto scan went through both of its attempts
C14_Witness ==
    /\ Settled
    /\ scan.source = "auto"
    /\ scan.doubleSided
    /\ Len(scan.log) = 2
    /\ scan.log[1].src = "duplex"
    /\ scan.log[2].spawn = "ok"

\* C15: a performScan during which no cleanup is invoked never fails with
\* 'Scan cancelled', whatever the flag was when it was called.
C15_NoStaleCancel ==
    (Settled /\ scan.cancelAt = {}) =>
        /\ scan.result # Err(MsgCancelled)
        /\ \A i \in 1..Len(scan.log) :
              scan.log[i].error \notin {MsgCancelled, MsgCancelledByUser}

\* a call that found the flag set by an earlier cancel, was not cancelled
\* itself and returned images
C15_Witness ==
    /\ Settled
    /\ scan.flagAtCall
    /\ scan.cancelAt = {}
    /\ scan.result.kind = "ok"

\* C16: at most one scan-tool process exists at any time, and the fallback's
\* spawn is tried only from the completed inter-attempt kill, when the
\* primary's process is gone.
C16_OneScanProcess ==
    [][ /\ Cardinality(ScanProcs') <= 1
        /\ (Len(scan.log) = 1 /\ Len(scan'.log) = 2 /\ scan'.log[2].spawn # "none") =>
              /\ scan.pc = "interKill"
              /\ scan.log[1].status = "failed"
              /\ ScanProcs = {}
      ]_vars

\* the fallback's process runs after the primary's process was spawned and exited
C16_Witness ==
    /\ scan.pc = "fallback"
    /\ procs[scan.proc].kind = "scan"
    /\ scan.log[1].spawn = "ok"
    /\ scan.log[1].code # -1

\* C17: a suppressor runs only during the attempt it was started for, and a
\* stopped suppressor gets no new dismissal process and no new timer and
\* never runs again.
C17_SuppressorStopped ==
    [][ /\ \A m \in MonIds : monRunning'[m] => (scan'.pc = "primary" /\ scan'.mon = m)
        /\ \A m \in MonIds :
              (~monRunning[m] /\ m \notin FreeMons) =>
                  /\ ~monRunning'[m]
                  /\ DismissalsOf(m)' \subseteq DismissalsOf(m)
                  /\ PendingTimersOf(m)' \subseteq PendingTimersOf(m)
      ]_vars

\* an attempt returned images and its stopped suppressor still has a timer
\* scheduled earlier
C17_Witness ==
    /\ Settled
    /\ scan.result.kind = "ok"
    /\ \E m \in MonIds : ~monRunning[m] /\ PendingTimersOf(m) # {}

\* C18: the registry sets hold exactly the pending timers and the processes
\* that exist and were not killed by a cleanup.
C18_RegistryDiscipline ==
    /\ activeTimeouts = {t \in TimerIds : timers[t].st = "pending"}
    /\ activeProcesses = {p \in ProcIds : procs[p].kind # "none" /\ ~procs[p].killed}

\* C19: outside a running attempt no scan-tool process exists, and a suppressor
\* that is not running has no dismissal process and no pending timer.
C19_AttemptReclaimed ==
    /\ scan.pc \notin {"primary", "fallback"} => ScanProcs = {}
    /\ \A m \in MonIds :
          ~monRunning[m] => (DismissalsOf(m) = {} /\ PendingTimersOf(m) = {})

\* C20: while the flag stays set after a completed cleanup, no step adds a
\* process or a timer to a registry set.
C20_NoReAddAfterCleanup ==
    [][ (/\ isScanCancelled /\ isScanCancelled'
         /\ cancelPending = 0 /\ scan.pc # "initCleanup") =>
            (/\ activeProcesses' \subseteq activeProcesses
             /\ activeTimeouts' \subseteq activeTimeouts)
      ]_vars

\* C21: the cancellation flag goes from set to clear only in the step that
\* ends performScan's init phase, and from clear to set only in a step that
\* runs cleanup() (the cancel-scan handler, or performScan's own first lines).
C21_FlagFrame ==
    [][ /\ (isScanCancelled /\ ~isScanCancelled') =>
              (scan.pc = "initCleanup" /\ scan'.pc # "initCleanup")
        /\ (~isScanCancelled /\ isScanCancelled') =>
              \/ cancelPending' > cancelPending
              \/ (scan.pc = "idle" /\ scan'.pc = "initCleanup")
      ]_vars

\* a cancelled scan has ended and a getScanners call was refused and has
\* returned, and the flag is still set
C21_Witness ==
    /\ isScanCancelled
    /\ Settled
    /\ scan.log # <<>>
    /\ LastAttempt.spawn = "ok"
    /\ gs.done
    /\ gs.refused
    /\ cancelPending = 0

\* C22: ScannerModal never has two performScan requests in flight, and
\* isScanning is true exactly while one is in flight.
C22_UiSerialised ==
    /\ ui.inflight <= 1
    /\ ui.isScanning <=> (ui.inflight = 1)

\* the modal was closed during a scan (cancelScan sent) and reopened while the
\* request is still pending
C22_Witness ==
    /\ ui.isOpen
    /\ ui.isScanning
    /\ ui.inflight = 1
    /\ ui.cancelSent
    /\ ui.reopened

\* C23: a scan attempt whose tool process is running always ends, so that
\* performScan settles, even if the tool never exits and nobody cancels.
C23_AttemptEnds ==
    (scan.pc \in {"primary", "fallback"}) ~> (scan.pc = "idle")

EndsIn(s, suffix) ==
    /\ Len(s) >= Len(suffix)
    /\ \A i \in 1..Len(suffix) : s[Len(s) - Len(suffix) + i] = suffix[i]

\* the rule of C24 for one tool-reported name
KeptByRule(deviceNames, name) ==
    LET nameLower == toLowerCase(name) IN
    \/ /\ Len(deviceNames) > 0
       /\ \E i \in 1..Len(deviceNames) :
             \/ includes(nameLower, toLowerCase(deviceNames[i]))
             \/ includes(toLowerCase(deviceNames[i]), nameLower)
    \/ /\ \A i \in 1..Len(nameLower) : nameLower[i] \notin Digits
       /\ EndsIn(nameLower, WordScanner)
       /\ \E i \in 1..Len(deviceNames) :
             includes(toLowerCase(deviceNames[i]), FirstToken(nameLower))

\* C24: when the device query succeeded, a tool-reported name passes the
\* connectivity filter if and only if it matches a connected device name as a
\* substring in either direction, or it is generic (no digit, ends in
\* "scanner") and its first token occurs in a connected device name.
C24_FilterRule ==
    (pout.done /\ ~pin.devErr) =>
        \A n \in Candidates(pin.twain) \cup Candidates(pin.wia) :
            (n \notin pout.removed) <=> KeptByRule(ParseDevices(pin.devStdout).names, n)

\* C25: an attempt whose tool could not be started is recorded as failed with
\* the spawn error, no process that does not exist is in the registry, no
\* suppressor runs after the failed start, and an auto scan whose primary
\* failed to start goes on to a fallback attempt.
C25_SpawnFailure ==
    /\ \A i \in 1..Len(scan.log) :
          scan.log[i].spawn = "failed" =>
              (scan.log[i].status = "failed" /\ scan.log[i].error = MsgSpawn)
    /\ \A p \in activeProcesses : procs[p].kind # "none"
    /\ (scan.log # <<>> /\ LastAttempt.spawn = "failed") =>
          \A m \in MonIds : ~monRunning[m]
    /\ (Settled /\ scan.source = "auto" /\ scan.log # <<>>
              /\ scan.log[1].spawn = "failed") => Len(scan.log) = 2

\* an auto scan whose primary could not be started, with its suppressor
\* requested, and whose fallback ran the tool
C25_Witness ==
    /\ Settled
    /\ scan.source = "auto"
    /\ Len(scan.log) = 2
    /\ scan.log[1].spawn = "failed"
    /\ scan.log[1].monitor
    /\ scan.log[2].spawn = "ok"

\* C26: in a step taken with the flag set, getScanners starts no listing
\* pass (spawns no scan-tool process), and when it leaves the device query it
\* returns the empty list.
C26_RefusedListing ==
    [][ isScanCancelled =>
          /\ gs'.pc \in {"twain", "wia"} => gs'.pc = gs.pc
          /\ (gs.pc = "devq" /\ gs'.pc # "devq") =>
                (gs'.pc = "idle" /\ gs'.done /\ gs'.scanners = <<>>)
      ]_vars

\* getScanners has returned empty because of the flag, with a device connected
C26_Witness ==
    /\ isScanCancelled
    /\ gs.done
    /\ gs.refused
    /\ gs.scanners = <<>>
    /\ Len(gs.devices.names) > 0

\* C27: once cleanup() has run while an attempt's tool process is running, the
\* performScan call eventually settles with the cancellation failure and no
\* suppressor is left running (killed processes report their exit).
C27_CancelSettles ==
    (scan.pc \in {"primary", "fallback"} /\ isScanCancelled) ~>
        (/\ Settled
         /\ scan.result.kind = "err"
         /\ \A m \in MonIds : ~monRunning[m])

\* a scan cancelled during an attempt has settled after its killed tool
\* process reported its exit
C27_Witness ==
    /\ Settled
    /\ scan.cancelAt \cap {"primary", "fallback"} # {}
    /\ scan.log # <<>>
    /\ LastAttempt.spawn = "ok"
    /\ LastAttempt.code # -1
    /\ scan.result.kind = "err"

\* the names the tool reports, one of them with a ':'
ReportedNames == {NameHPL3, NameHP1, NameHPScanner, NameColon}

DriverChars(t) == IF t = "twain" THEN <<"t","w","a","i","n">> ELSE <<"w","i","a">>

\* the id has no driver part or no name part
LacksPart(id) ==
    \/ id = <<>>
    \/ id[1] = ":"
    \/ \A i \in 1..Len(id) : id[i] # ":"
    \/ \E k \in 1..Len(id) : id[k] = ":" /\ k = Len(id) /\ \A i \in 1..(k - 1) : id[i] # ":"

\* C28: parsing the id "t:n" that getScanners builds gives back driver t and
\* name n, also for a name with ':'; an id without driver or name is rejected
\* with 'Invalid scanner ID' and no attempt is made for it.
C28_IdRoundTrip ==
    /\ \A t \in {"twain", "wia"}, n \in ReportedNames :
          ParseId(IdPrefix(t) \o n) = [driver |-> DriverChars(t), deviceName |-> n]
    /\ scan.log # <<>> => ~LacksPart(scan.scannerId)
    /\ (Settled /\ naps2Exists /\ LacksPart(scan.scannerId)) =>
          (scan.result = Err(MsgInvalidId) /\ scan.log = <<>>)

\* a scan with the id of a device whose name has a ':' returned images
C28_Witness ==
    /\ Settled
    /\ scan.scannerId = IdWiaColon
    /\ ParseId(scan.scannerId).deviceName = NameColon
    /\ scan.result.kind = "ok"

\* C29: whenever ScannerModal holds images, currentImageIndex is an index of
\* the list.
C29_IndexInRange ==
    ui.images # <<>> => (ui.index >= 0 /\ ui.index < Len(ui.images))

\* C30: once installOcrLanguage has reported 90, its promise eventually
\* settles.
C30_SettlesAfterNinety ==
    (ocr.pc = "verify") ~> (ocr.settled = 1)

====
